---- MODULE Spec2Model ----
(***************************************************************************)
(* Model of the Aviz NCP AI Agent tool server (mcp_server.py) and of the   *)
(* agent functions behind its five tools, and of the system health         *)
(* validation of agents/validation_agent.py.                               *)
(*                                                                         *)
(* A server process ("run") imports agents/ai_agent.py once, which builds  *)
(* the module-level health model with unseeded random weights, and then    *)
(* serves tool calls.  Every tool is a wrapper (mcp_server.py) around an   *)
(* agent function; the wrapper turns an exception of the agent into a      *)
(* returned mapping.                                                       *)
(*                                                                         *)
(* Numbers are fixed point: weights and pre-activations in thousandths,    *)
(* utilization in hundredths, scores in millionths.  Python dicts are      *)
(* functions from key strings to tagged JSON values.  The strings that the *)
(* code inspects character by character (type, platform) are sequences of  *)
(* one-character strings.                                                  *)
(***************************************************************************)
EXTENDS Integers, Sequences, FiniteSets, TLC

VARIABLES
  run,      \* number of the server process now running (1 = the first start)
  model,    \* ai_agent.model of that process: the weights set at import
  fs,       \* the files load_build_json can see
  last,     \* the last tool call served and its outcome
  predLog,  \* the last predict_link_health call served, over all processes
  env,      \* what validation_agent.py finds around it: sample file, endpoints
  health,   \* the last validate_system_health report and the probes it issued
  stdio,    \* a server script from its start: position, stdout and log lines
  client    \* a client script: position, request_id and the messages written

vars == <<run, model, fs, last, predLog, env, health, stdio, client>>

----------------------------------------------------------------------------
(* JSON values *)

Null == [t |-> "null"]

Str(s) == [t |-> "str", v |-> s]

\* A string the code looks into: its characters, as a sequence
Chars(s) == [t |-> "str", c |-> s]

\* An f-string: the literal part and the interpolated value
Fmt(prefix, arg) == [t |-> "str", v |-> prefix, w |-> arg]

Num(n) == [t |-> "num", v |-> n]

Bool(b) == [t |-> "bool", v |-> b]

List(s) == [t |-> "list", v |-> s]

Obj(d) == [t |-> "obj", v |-> d]

EmptyDict == [k \in {} |-> Null]

----------------------------------------------------------------------------
(* Character strings: str.lower() and the `in` substring test *)

UpperToLower ==
  [c \in {"A","B","C","D","E","F","G","H","I","J","K","L","M","N","O","P","Q",
          "R","S","T","U","V","W","X","Y","Z"} |->
     CASE c = "A" -> "a" [] c = "B" -> "b" [] c = "C" -> "c" [] c = "D" -> "d"
       [] c = "E" -> "e" [] c = "F" -> "f" [] c = "G" -> "g" [] c = "H" -> "h"
       [] c = "I" -> "i" [] c = "J" -> "j" [] c = "K" -> "k" [] c = "L" -> "l"
       [] c = "M" -> "m" [] c = "N" -> "n" [] c = "O" -> "o" [] c = "P" -> "p"
       [] c = "Q" -> "q" [] c = "R" -> "r" [] c = "S" -> "s" [] c = "T" -> "t"
       [] c = "U" -> "u" [] c = "V" -> "v" [] c = "W" -> "w" [] c = "X" -> "x"
       [] c = "Y" -> "y" [] c = "Z" -> "z"]

Lower(s) == [i \in 1..Len(s) |-> IF s[i] \in DOMAIN UpperToLower
                                   THEN UpperToLower[s[i]] ELSE s[i]]

Contains(hay, needle) ==
  \E i \in 1..(Len(hay) - Len(needle) + 1) :
      SubSeq(hay, i, i + Len(needle) - 1) = needle

SonicWord == <<"s","o","n","i","c">>

----------------------------------------------------------------------------
(* Outcome of a Python call: a returned value or a raised exception *)

Return(v) == [kind |-> "return", value |-> v]

Raise(msg) == [kind |-> "raise", value |-> msg]

----------------------------------------------------------------------------
(* utils/file_loader.py *)

\* A path argument: absolute or relative, with a file name.
RelPath(name) == [abs |-> FALSE, name |-> name]

AbsPath(name) == [abs |-> TRUE, name |-> name]

\* Where a file can live: <package>/data/builds, the working directory,
\* or an absolute location.
Loc(dir, name) == <<dir, name>>

FileAbsent == [k |-> "absent"]

FileInvalidJson == [k |-> "invalid"]

FileUnreadable == [k |-> "unreadable"]

FileJson(v) == [k |-> "json", v |-> v]

\* os.path.exists / Path.exists
Exists(files, loc) == loc \in DOMAIN files /\ files[loc].k # "absent"

\* load_build_json: resolve the path, then parse; None for a missing file,
\* invalid JSON or any other read error.  The result is Null (None) or the
\* parsed JSON value.
ResolvePath(files, path) ==
  IF ~path.abs
    THEN IF Exists(files, Loc("builds", path.name))
           THEN Loc("builds", path.name)
           ELSE Loc("cwd", path.name)
    ELSE Loc("abs", path.name)

load_build_json(files, path) ==
  LET file_path == ResolvePath(files, path) IN
    IF ~Exists(files, file_path) THEN Null
    ELSE IF files[file_path].k = "json" THEN files[file_path].v
    ELSE Null

----------------------------------------------------------------------------
(* agents/build_agent.py *)

SonicRequired == <<"version", "platform", "kernel_version", "build_date">>

\* NonSonicRequired with firmware_version left out
NonSonicRequired_short == <<"vendor", "model", "os_version">>

NonSonicRequired == <<"vendor", "model", "os_version", "firmware_version">>

RecommendedFields == <<"serial_number", "mac_address", "hostname">>

\* [f for f in fields if f not in build_data], in the order of fields
RECURSIVE MissingOf(_, _)
MissingOf(fields, build_data) ==
  IF fields = <<>> THEN <<>>
  ELSE (IF Head(fields) \in DOMAIN build_data THEN <<>> ELSE <<Head(fields)>>)
         \o MissingOf(Tail(fields), build_data)

\* f"Missing required fields: {', '.join(missing_fields)}"
MissingMsg(missing_fields) == Fmt("Missing required fields: ", missing_fields)

\* f"Recommended field missing: {field}"
WarningMsg(field) == Fmt("Recommended field missing: ", field)

\* f"Failed to load build file: {build_json_path}"
LoadFailedMsg(path) == Fmt("Failed to load build file: ", path)

BuildResult(valid, device_type, errors, warnings, metadata) ==
  [x \in {"valid", "device_type", "errors", "warnings", "metadata"} |->
     CASE x = "valid" -> Bool(valid)
       [] x = "device_type" -> device_type
       [] x = "errors" -> List(errors)
       [] x = "warnings" -> List(warnings)
       [] x = "metadata" -> Obj(metadata)]

\* build_data.get(key, "").lower(): the lowered string, or Null when the
\* value is not a string (AttributeError).  An absent key gives the default "".
LowerOf(build_data, key) ==
  IF key \notin DOMAIN build_data THEN Chars(<<>>)
  ELSE IF build_data[key].t = "str" THEN Chars(Lower(build_data[key].c))
  ELSE Null

\* The classification test of line 53, with the short-circuit of `or`:
\* "yes", "no", or "raise" (AttributeError on a non-string value).
IsSonic(build_data) ==
  LET ty == LowerOf(build_data, "type")
      pf == LowerOf(build_data, "platform") IN
    IF ty.t = "null" THEN "raise"
    ELSE IF Contains(ty.c, SonicWord) THEN "yes"
    ELSE IF pf.t = "null" THEN "raise"
    ELSE IF Contains(pf.c, SonicWord) THEN "yes"
    ELSE "no"

\* agent_validate_build_metadata without the `if build_data is None` return
agent_validate_build_metadata_nonecheck(files, path) ==
  LET loaded == load_build_json(files, path) IN
    IF loaded.t # "obj"
      THEN Raise("AttributeError: object has no attribute 'get'")
    ELSE Return(BuildResult(FALSE, Null, <<>>, <<>>, loaded.v))

agent_validate_build_metadata(files, path) ==
  LET loaded == load_build_json(files, path) IN
    IF loaded.t = "null"
      THEN Return(BuildResult(FALSE, Null, <<LoadFailedMsg(path)>>, <<>>, EmptyDict))
    ELSE IF loaded.t # "obj"
      THEN Raise("AttributeError: object has no attribute 'get'")
    ELSE
      LET build_data == loaded.v
          sonic == IsSonic(build_data) IN
        IF sonic = "raise"
          THEN Raise("AttributeError: object has no attribute 'lower'")
        ELSE
          LET device_type == IF sonic = "yes" THEN "SONiC" ELSE "non-SONiC"
              required_fields == IF sonic = "yes" THEN SonicRequired
                                               ELSE NonSonicRequired
              missing_fields == MissingOf(required_fields, build_data)
              errors == IF missing_fields # <<>>
                          THEN <<MissingMsg(missing_fields)>> ELSE <<>>
              missingRec == MissingOf(RecommendedFields, build_data)
              warnings == [i \in 1..Len(missingRec) |-> WarningMsg(missingRec[i])]
          IN Return(BuildResult(missing_fields = <<>>, Str(device_type),
                                errors, warnings, build_data))

----------------------------------------------------------------------------
(* mcp_server.py: the tool wrappers *)

Dict2(k1, v1, k2, v2) == (k1 :> v1) @@ (k2 :> v2)

\* validate_build_metadata tool, lines 143-153
tool_validate_build_metadata(files, path) ==
  LET out == agent_validate_build_metadata(files, path) IN
    IF out.kind = "return" THEN out
    ELSE Return([x \in {"valid", "error", "message", "errors", "warnings"} |->
                   CASE x = "valid" -> Bool(FALSE)
                     [] x = "error" -> Str("Validation failed")
                     [] x = "message" -> Str(out.value)
                     [] x = "errors" -> List(<<Str(out.value)>>)
                     [] x = "warnings" -> List(<<>>)])

----------------------------------------------------------------------------
(* Build metadata files the checks range over *)

Absent == [t |-> "absent"]

S_SONiC == Chars(<<"S","O","N","i","C">>)

S_Cisco == Chars(<<"C","i","s","c","o">>)

S_Arista == Chars(<<"x","8","6","_","6","4","-","a","r","i","s","t","a","_","7","1","7","0","_","6","4","c">>)

S_SonicVs == Chars(<<"x","8","6","_","6","4","-","k","v","m","_","S","o","n","i","c","-","r","0">>)

S_Version == Chars(<<"2","0","2","3","1","1",".","1">>)

TypeChoices == {Absent, S_SONiC, S_Cisco, Null}

PlatformChoices == {Absent, S_Arista, S_SonicVs, Null}

PlainFields == {"version", "kernel_version", "build_date", "vendor", "model",
                "os_version", "firmware_version", "serial_number",
                "mac_address", "hostname"}

ObjOf(S, ty, pf) ==
  [k \in S \cup (IF ty.t = "absent" THEN {} ELSE {"type"})
           \cup (IF pf.t = "absent" THEN {} ELSE {"platform"}) |->
     IF k = "type" THEN ty ELSE IF k = "platform" THEN pf ELSE S_Version]

BuildObjects == { ObjOf(S, ty, pf) : S \in SUBSET PlainFields,
                                     ty \in TypeChoices, pf \in PlatformChoices }

\* {"platform": "x86_64-arista_7170_64c", "version": "202311.1"}
AristaTwoFields == Dict2("platform", S_Arista, "version", S_Version)

\* sample_cisco of create_sample_build_files
SampleCisco == ObjOf({"vendor", "model", "os_version", "firmware_version",
                      "serial_number", "mac_address", "hostname"}, Absent, Absent)

\* sample_sonic of create_sample_build_files
SampleSonic == ObjOf({"version", "kernel_version", "build_date",
                      "serial_number", "mac_address", "hostname"}, S_SONiC, S_Arista)

NotLoadable == {FileAbsent, FileInvalidJson, FileUnreadable, FileJson(Null)}

SmallContents == NotLoadable \cup
                 {FileJson(List(<<>>)), FileJson(Obj(AristaTwoFields)),
                  FileJson(Obj(SampleCisco)), FileJson(Obj(SampleSonic))}

FileContents == SmallContents \cup { FileJson(Obj(d)) : d \in BuildObjects }

FsWith(b, w, a) ==
  (Loc("builds", "a.json") :> b) @@ (Loc("cwd", "a.json") :> w)
     @@ (Loc("abs", "b.json") :> a)

Paths == {RelPath("a.json"), AbsPath("b.json"), RelPath("nope.json")}

----------------------------------------------------------------------------
(* agents/ai_agent.py: SimpleHealthModel *)

\* nn.Linear(3, 8) and nn.Linear(8, 1)
InFeatures == 3

Hidden == 8

\* Bound of the default nn.Linear initialisation, U(-1/sqrt(fan_in),
\* 1/sqrt(fan_in)), in thousandths: fan_in 3 and fan_in 8.
InitBound1 == 577

InitBound2 == 354

\* The code never seeds torch's generator, so the weights of a process are
\* a function of a seed the code does not fix.  The generator is modelled
\* by a linear congruential sequence.
RngNext(s) == (s * 27 + 74) % 65537

RECURSIVE Draws(_, _)
Draws(s, n) == IF n = 0 THEN <<>> ELSE <<RngNext(s)>> \o Draws(RngNext(s), n - 1)

Uniform(v, bound) == (v % (2 * bound + 1)) - bound

InitWeights(seed) ==
  LET d == Draws(seed, Hidden * InFeatures + Hidden + Hidden + 1) IN
    [w1 |-> [h \in 1..Hidden |-> [i \in 1..InFeatures |->
                Uniform(d[(h - 1) * InFeatures + i], InitBound1)]],
     b1 |-> [h \in 1..Hidden |-> Uniform(d[Hidden * InFeatures + h], InitBound1)],
     w2 |-> [h \in 1..Hidden |-> Uniform(d[Hidden * InFeatures + Hidden + h], InitBound2)],
     b2 |-> Uniform(d[Hidden * InFeatures + 2 * Hidden + 1], InitBound2)]

RECURSIVE SumTo(_, _)
SumTo(f, n) == IF n = 0 THEN 0 ELSE f[n] + SumTo(f, n - 1)

Max(a, b) == IF a >= b THEN a ELSE b

Min(a, b) == IF a <= b THEN a ELSE b

Abs(a) == IF a < 0 THEN -a ELSE a

\* nn.Sigmoid: z in thousandths, value in millionths.  1/(1+exp(-z)) is
\* tabulated every 0.25 on [-16, 16] and interpolated linearly; beyond the
\* table float32 saturates to 0.0 and 1.0.
SigmoidTable ==
  <<
     0, 0, 0, 0, 0, 0, 1, 1,
     1, 1, 1, 2, 2, 3, 4, 5,
     6, 8, 10, 13, 17, 21, 28, 35,
     45, 58, 75, 96, 123, 158, 203, 261,
     335, 431, 553, 710, 911, 1170, 1501, 1927,
     2473, 3173, 4070, 5220, 6693, 8577, 10987, 14064,
     17986, 22977, 29312, 37327, 47426, 60087, 75858, 95349,
     119203, 148047, 182426, 222700, 268941, 320821, 377541, 437823,
     500000, 562177, 622459, 679179, 731059, 777300, 817574, 851953,
     880797, 904651, 924142, 939913, 952574, 962673, 970688, 977023,
     982014, 985936, 989013, 991423, 993307, 994780, 995930, 996827,
     997527, 998073, 998499, 998830, 999089, 999290, 999447, 999569,
     999665, 999739, 999797, 999842, 999877, 999904, 999925, 999942,
     999955, 999965, 999972, 999979, 999983, 999987, 999990, 999992,
     999994, 999995, 999996, 999997, 999998, 999998, 999999, 999999,
     999999, 999999, 999999, 1000000, 1000000, 1000000, 1000000, 1000000,
     1000000
  >>

Sigmoid(z) ==
  IF z <= -16000 THEN SigmoidTable[1]
  ELSE IF z >= 16000 THEN SigmoidTable[Len(SigmoidTable)]
  ELSE LET off == z + 16000
           i == off \div 250
       IN SigmoidTable[i + 1]
            + ((SigmoidTable[i + 2] - SigmoidTable[i + 1]) * (off - i * 250)) \div 250

\* forward: Linear(3,8), ReLU, Linear(8,1), Sigmoid.  x in thousandths.
Forward(m, x) ==
  LET pre == [h \in 1..Hidden |->
                (SumTo([i \in 1..InFeatures |-> m.w1[h][i] * x[i]], InFeatures)
                   \div 1000) + m.b1[h]]
      act == [h \in 1..Hidden |-> Max(0, pre[h])]
      z == (SumTo([h \in 1..Hidden |-> m.w2[h] * act[h]], Hidden) \div 1000) + m.b2
  IN Sigmoid(z)

\* round(score, 3): millionths to thousandths, ties to even
Round3(score) ==
  LET q == score \div 1000
      r == score % 1000
  IN IF r > 500 \/ (r = 500 /\ q % 2 = 1) THEN q + 1 ELSE q

\* score > 0.7
HealthyThreshold == 700000

----------------------------------------------------------------------------
(* agents/ai_agent.py: predict_link_health *)

\* ClampUtilization that only clamps from below
ClampUtilization_lower(utilization) == Max(0, utilization)

\* utilization is carried in hundredths
ClampUtilization(utilization) ==
  IF ~(0 <= utilization /\ utilization <= 100)
    THEN Max(0, Min(100, utilization))
    ELSE utilization

NormRx(rx_errors, tx_errors) ==
  IF rx_errors < 0 \/ tx_errors < 0 THEN Abs(rx_errors) ELSE rx_errors

NormTx(rx_errors, tx_errors) ==
  IF rx_errors < 0 \/ tx_errors < 0 THEN Abs(tx_errors) ELSE tx_errors

\* The unrounded model(x).item() for normalised inputs
ModelScore(m, rx, tx, util) == Forward(m, <<rx * 1000, tx * 1000, util * 10>>)

\* StatusOf that compares the rounded score
StatusOf_rounded(score) == IF Round3(score) > 700 THEN "healthy" ELSE "warning"

StatusOf(score) == IF score > HealthyThreshold THEN "healthy" ELSE "warning"

\* The error payload of the agent with a score of zero in place of None
PredictionFailed_zeroscore(msg) ==
  [x \in {"error", "message", "health_score", "status"} |->
     CASE x = "error" -> Str("Prediction failed")
       [] x = "message" -> Str(msg)
       [] x = "health_score" -> Num(0)
       [] x = "status" -> Str("error")]

PredictionFailed(msg) ==
  [x \in {"error", "message", "health_score", "status"} |->
     CASE x = "error" -> Str("Prediction failed")
       [] x = "message" -> Str(msg)
       [] x = "health_score" -> Null
       [] x = "status" -> Str("error")]

\* fault: "none", "inner" (an exception inside the try block, e.g. the
\* tensor cannot be built on the device) or "outer" (an exception that
\* leaves the function).
agent_predict_link_health(m, rx_errors, tx_errors, utilization, fault) ==
  IF fault = "outer" THEN Raise("exception in predict_link_health")
  ELSE IF fault = "inner" THEN Return(PredictionFailed("torch error"))
  ELSE
    LET util == ClampUtilization(utilization)
        rx == NormRx(rx_errors, tx_errors)
        tx == NormTx(rx_errors, tx_errors)
        score == ModelScore(m, rx, tx, util)
    IN Return([x \in {"health_score", "status", "inputs"} |->
                 CASE x = "health_score" -> Num(Round3(score))
                   [] x = "status" -> Str(StatusOf(score))
                   [] x = "inputs" ->
                        Obj([y \in {"rx_errors", "tx_errors", "utilization"} |->
                               CASE y = "rx_errors" -> Num(rx)
                                 [] y = "tx_errors" -> Num(tx)
                                 [] y = "utilization" -> Num(util)])])

\* The local `score` of a call, -1 when the call computes none
ScoreOf(m, rx_errors, tx_errors, utilization, fault) ==
  IF fault # "none" THEN -1
  ELSE ModelScore(m, NormRx(rx_errors, tx_errors), NormTx(rx_errors, tx_errors),
                  ClampUtilization(utilization))

\* predict_link_health tool, mcp_server.py lines 107-116
tool_predict_link_health(m, rx_errors, tx_errors, utilization, fault) ==
  LET out == agent_predict_link_health(m, rx_errors, tx_errors, utilization, fault) IN
    IF out.kind = "return" THEN out
    ELSE Return([x \in {"error", "message", "health_score", "status"} |->
                   CASE x = "error" -> Str("Health prediction failed")
                     [] x = "message" -> Str(out.value)
                     [] x = "health_score" -> Null
                     [] x = "status" -> Str("error")])

----------------------------------------------------------------------------
(* agents/remediation_agent.py *)

Scenario(action, reason, confidence, downtime, device_type) ==
  [action |-> action, reason |-> reason, confidence |-> confidence,
   estimated_downtime_seconds |-> downtime, device_type |-> device_type]

\* confidence in hundredths
scenarios ==
  << Scenario("restart_port",
              "High error rate detected. Interface restart recommended.",
              85, 5, "SONiC"),
     Scenario("reapply_config",
              "Configuration drift detected. Reapplying interface configuration.",
              92, 2, "Cisco"),
     Scenario("clear_counters",
              "Counter overflow suspected. Clearing and monitoring.",
              78, 1, "SONiC"),
     Scenario("no_remediation_needed",
              "Interface health is within acceptable parameters.",
              95, 0, "any") >>

\* InvalidInterface without the emptiness test
InvalidInterface_typeonly(interface) == interface.t # "str"

\* `not interface or not isinstance(interface, str)`
InvalidInterface(interface) ==
  interface.t # "str" \/ interface.v = ""

\* choice: the index random.choice picks, used only for a valid interface;
\* fault: an exception that leaves the function.
\* agent_remediate_link that lets the interface name decide the scenario:
\* "Ethernet12" always gets the first one
agent_remediate_link_byname(interface, choice, fault) ==
  IF fault THEN Raise("exception in remediate_link")
  ELSE IF InvalidInterface(interface)
    THEN Return([x \in {"error", "interface", "recommended_action"} |->
                   CASE x = "error" -> Str("Invalid interface parameter")
                     [] x = "interface" -> interface
                     [] x = "recommended_action" -> Null])
  ELSE
    LET selected == IF interface = Str("Ethernet12") THEN scenarios[1]
                                                     ELSE scenarios[choice] IN
      Return([x \in {"interface", "recommended_action", "reason", "confidence",
                     "estimated_downtime_seconds", "device_type", "timestamp",
                     "next_steps"} |->
                CASE x = "interface" -> interface
                  [] x = "recommended_action" -> Str(selected.action)
                  [] x = "reason" -> Str(selected.reason)
                  [] x = "confidence" -> Num(selected.confidence)
                  [] x = "estimated_downtime_seconds" ->
                       Num(selected.estimated_downtime_seconds)
                  [] x = "device_type" -> Str(selected.device_type)
                  [] x = "timestamp" -> Str("2024-01-15T10:30:00Z")
                  [] x = "next_steps" ->
                       List(<<Str("Review telemetry data"),
                              Str("Execute remediation if approved"),
                              Str("Monitor interface post-remediation")>>)])

agent_remediate_link(interface, choice, fault) ==
  IF fault THEN Raise("exception in remediate_link")
  ELSE IF InvalidInterface(interface)
    THEN Return([x \in {"error", "interface", "recommended_action"} |->
                   CASE x = "error" -> Str("Invalid interface parameter")
                     [] x = "interface" -> interface
                     [] x = "recommended_action" -> Null])
  ELSE
    LET selected == scenarios[choice] IN
      Return([x \in {"interface", "recommended_action", "reason", "confidence",
                     "estimated_downtime_seconds", "device_type", "timestamp",
                     "next_steps"} |->
                CASE x = "interface" -> interface
                  [] x = "recommended_action" -> Str(selected.action)
                  [] x = "reason" -> Str(selected.reason)
                  [] x = "confidence" -> Num(selected.confidence)
                  [] x = "estimated_downtime_seconds" ->
                       Num(selected.estimated_downtime_seconds)
                  [] x = "device_type" -> Str(selected.device_type)
                  [] x = "timestamp" -> Str("2024-01-15T10:30:00Z")
                  [] x = "next_steps" ->
                       List(<<Str("Review telemetry data"),
                              Str("Execute remediation if approved"),
                              Str("Monitor interface post-remediation")>>)])

\* The scenario random.choice selected in a call, 0 when none was selected
SelectedScenario(interface, choice, fault) ==
  IF fault \/ InvalidInterface(interface) THEN 0 ELSE choice

\* tool_remediate_link without its try/except
tool_remediate_link_nocatch(interface, choice, fault) ==
  agent_remediate_link(interface, choice, fault)

\* remediate_link tool, mcp_server.py lines 181-190
tool_remediate_link(interface, choice, fault) ==
  LET out == agent_remediate_link(interface, choice, fault) IN
    IF out.kind = "return" THEN out
    ELSE Return([x \in {"error", "message", "interface", "recommended_action"} |->
                   CASE x = "error" -> Str("Remediation analysis failed")
                     [] x = "message" -> Str(out.value)
                     [] x = "interface" -> interface
                     [] x = "recommended_action" -> Null])

----------------------------------------------------------------------------
(* agents/telemetry_agent.py and utils/topology_builder.py *)

\* round(x, 2): thousandths to hundredths, ties to even
\* round(x, 2) that always goes up to the next hundredth
Round2_up(x) == (x \div 10) + 1

Round2(x) ==
  LET q == x \div 10
      r == x % 10
  IN IF r > 5 \/ (r = 5 /\ q % 2 = 1) THEN q + 1 ELSE q

\* rb, tb, re, te: the random.randint draws; u: the random.uniform draw in
\* thousandths.  utilization is returned in hundredths.
agent_get_port_telemetry(rb, tb, re, te, u, fault) ==
  IF fault THEN Raise("exception in get_port_telemetry")
  ELSE Return([x \in {"switch", "interface", "rx_bytes", "tx_bytes", "rx_errors",
                      "tx_errors", "utilization"} |->
                 CASE x = "switch" -> Str("sonic-leaf-01")
                   [] x = "interface" -> Str("Ethernet12")
                   [] x = "rx_bytes" -> Num(rb)
                   [] x = "tx_bytes" -> Num(tb)
                   [] x = "rx_errors" -> Num(re)
                   [] x = "tx_errors" -> Num(te)
                   [] x = "utilization" -> Num(Round2(u))])

\* get_port_telemetry tool, mcp_server.py lines 41-48
tool_get_port_telemetry(rb, tb, re, te, u, fault) ==
  LET out == agent_get_port_telemetry(rb, tb, re, te, u, fault) IN
    IF out.kind = "return" THEN out
    ELSE Return(Dict2("error", Str("Telemetry collection failed"),
                      "message", Str(out.value)))

Device(id, type, vendor, mdl, role, ifaces) ==
  [id |-> id, type |-> type, vendor |-> vendor, model |-> mdl, role |-> role,
   status |-> "active", interfaces |-> ifaces]

Iface(name, speed) == [name |-> name, status |-> "up", speed |-> speed]

Link(source, source_port, target, target_port, bandwidth) ==
  [source |-> source, source_port |-> source_port, target |-> target,
   target_port |-> target_port, bandwidth |-> bandwidth, status |-> "up"]

devices ==
  << Device("sonic-leaf-01", "SONiC", "Dell", "S5248F-ON", "leaf",
            <<Iface("Ethernet12", "25G"), Iface("Ethernet24", "100G")>>),
     Device("sonic-spine-01", "SONiC", "Arista", "DCS-7280SR3", "spine",
            <<Iface("Ethernet1/1", "100G"), Iface("Ethernet1/2", "100G")>>),
     Device("cisco-core-01", "Cisco", "Cisco", "Nexus 9000", "core",
            <<Iface("GigabitEthernet0/1", "10G"), Iface("GigabitEthernet0/2", "10G")>>),
     Device("fortigate-fw-01", "FortiGate", "Fortinet", "FortiGate 100F", "firewall",
            <<Iface("port1", "1G"), Iface("port2", "1G")>>),
     Device("edgecore-spine-02", "SONiC", "EdgeCore", "AS7326-56X", "spine",
            <<Iface("Ethernet1", "100G"), Iface("Ethernet2", "100G")>>) >>

\* links with the last link ending on a port the first link already uses
links_reusedport ==
  << Link("sonic-leaf-01", "Ethernet24", "sonic-spine-01", "Ethernet1/1", "100G"),
     Link("cisco-core-01", "GigabitEthernet0/1", "sonic-spine-01", "Ethernet1/2", "10G"),
     Link("fortigate-fw-01", "port1", "cisco-core-01", "GigabitEthernet0/2", "1G"),
     Link("edgecore-spine-02", "Ethernet1", "sonic-leaf-01", "Ethernet24", "25G") >>

links ==
  << Link("sonic-leaf-01", "Ethernet24", "sonic-spine-01", "Ethernet1/1", "100G"),
     Link("cisco-core-01", "GigabitEthernet0/1", "sonic-spine-01", "Ethernet1/2", "10G"),
     Link("fortigate-fw-01", "port1", "cisco-core-01", "GigabitEthernet0/2", "1G"),
     Link("edgecore-spine-02", "Ethernet1", "sonic-leaf-01", "Ethernet12", "25G") >>

\* build_multi_vendor_topology counting every device as non-SONiC
build_multi_vendor_topology_nosubtract ==
  LET sonic_devices ==
        Cardinality({i \in 1..Len(devices) : devices[i].type = "SONiC"})
      active_links ==
        Cardinality({i \in 1..Len(links) : links[i].status = "up"})
      non_sonic_devices == Len(devices)
  IN [x \in {"timestamp", "devices", "links", "statistics"} |->
        CASE x = "timestamp" -> Str("2024-01-15T10:30:00Z")
          [] x = "devices" -> List(devices)
          [] x = "links" -> List(links)
          [] x = "statistics" ->
               Obj([y \in {"total_devices", "sonic_devices", "non_sonic_devices",
                           "total_links", "active_links"} |->
                      CASE y = "total_devices" -> Num(Len(devices))
                        [] y = "sonic_devices" -> Num(sonic_devices)
                        [] y = "non_sonic_devices" -> Num(non_sonic_devices)
                        [] y = "total_links" -> Num(Len(links))
                        [] y = "active_links" -> Num(active_links)])]

build_multi_vendor_topology ==
  LET sonic_devices ==
        Cardinality({i \in 1..Len(devices) : devices[i].type = "SONiC"})
      active_links ==
        Cardinality({i \in 1..Len(links) : links[i].status = "up"})
      non_sonic_devices == Len(devices) - sonic_devices
  IN [x \in {"timestamp", "devices", "links", "statistics"} |->
        CASE x = "timestamp" -> Str("2024-01-15T10:30:00Z")
          [] x = "devices" -> List(devices)
          [] x = "links" -> List(links)
          [] x = "statistics" ->
               Obj([y \in {"total_devices", "sonic_devices", "non_sonic_devices",
                           "total_links", "active_links"} |->
                      CASE y = "total_devices" -> Num(Len(devices))
                        [] y = "sonic_devices" -> Num(sonic_devices)
                        [] y = "non_sonic_devices" -> Num(non_sonic_devices)
                        [] y = "total_links" -> Num(Len(links))
                        [] y = "active_links" -> Num(active_links)])]

TopologyError(error, msg) ==
  [x \in {"error", "message", "devices", "links", "statistics"} |->
     CASE x = "error" -> Str(error)
       [] x = "message" -> Str(msg)
       [] x = "devices" -> List(<<>>)
       [] x = "links" -> List(<<>>)
       [] x = "statistics" -> Obj(EmptyDict)]

\* fault: "none", "inner" (build_multi_vendor_topology raises, caught by the
\* agent) or "outer" (an exception that leaves the agent function).
agent_get_network_topology(fault) ==
  IF fault = "outer" THEN Raise("exception in get_network_topology")
  ELSE IF fault = "inner"
    THEN Return(TopologyError("Failed to generate topology", "builder error"))
  ELSE Return(build_multi_vendor_topology)

\* get_network_topology tool, mcp_server.py lines 68-78
tool_get_network_topology(fault) ==
  LET out == agent_get_network_topology(fault) IN
    IF out.kind = "return" THEN out
    ELSE Return(TopologyError("Topology generation failed", out.value))

----------------------------------------------------------------------------
(* agents/validation_agent.py *)

\* What requests.get(url, timeout=...) can end in: a response, or an
\* exception given by the classes of requests.exceptions it is an instance
\* of (the `except` clauses test exactly these two).
Response(code, body) == [kind |-> "response", status_code |-> code, json |-> body]

Raised(isConnectionError, isTimeout) ==
  [kind |-> "raise", ConnectionError |-> isConnectionError, Timeout |-> isTimeout]

ConnectionRefused == Raised(TRUE, FALSE)

\* requests.exceptions.ConnectTimeout derives from ConnectionError and Timeout
ConnectTimeout == Raised(TRUE, TRUE)

ReadTimeout == Raised(FALSE, TRUE)

\* any other RequestException, e.g. TooManyRedirects
OtherRequestError == Raised(FALSE, FALSE)

NotJson == [t |-> "notjson"]

\* One call of requests.get: the keyword timeout it was given (Null when the
\* call passes none) and what it ended in.
Probe(component, url, timeout, outcome) ==
  [component |-> component, url |-> url, timeout |-> timeout, outcome |-> outcome]

\* What a validator hands back: its result dict and the probes it issued
Validated(result, probes) == [result |-> result, probes |-> probes]

Put(d, k, v) == [x \in DOMAIN d \cup {k} |-> IF x = k THEN v ELSE d[x]]

Status(d, status, details) == Put(Put(d, "status", Str(status)), "details", details)

PlaceholderToken == "your-api-token-here"

\* line 46: not token or token == "your-api-token-here" or token == ""
UsesSampleData(token) == token = "" \/ token = PlaceholderToken

critical_devices == <<"sonic-leaf-01", "sonic-spine-01">>

\* line 66: the critical devices no entry of the list is named after
MissingCritical(devs) ==
  SelectSeq(critical_devices,
            LAMBDA d : ~\E i \in 1..Len(devs) :
                          /\ "name" \in DOMAIN devs[i].v
                          /\ devs[i].v["name"].t = "str"
                          /\ devs[i].v["name"].v = d)

NetboxInitial ==
  [k \in {"status", "details", "device_count", "expected_count", "missing_devices"} |->
     CASE k = "status" -> Str("Not Run")
       [] k = "details" -> Str("NetBox validation not executed")
       [] k = "missing_devices" -> List(<<>>)
       [] OTHER -> Num(0)]

\* validate_netbox, lines 47-83: the sample file <package>/data/netbox_sample.json
NetboxFromSample(sample) ==
  IF sample.k = "absent"
    THEN Status(NetboxInitial, "Failed", Str("NetBox sample data not available"))
  ELSE IF sample.k # "json" \/ sample.v.t # "obj"
    THEN Status(NetboxInitial, "Failed",
                Fmt("Error validating NetBox sample data: ", "exception"))
  ELSE
    LET devs == IF "devices" \in DOMAIN sample.v.v
                  THEN sample.v.v["devices"].v ELSE <<>>
        actual_count == Len(devs)
        missing == MissingCritical(devs)
        counted == Put(Put(NetboxInitial, "device_count", Num(actual_count)),
                       "expected_count", Num(5))
    IN  IF actual_count # 5
          THEN Status(counted, "Failed",
                      Fmt("Device count mismatch: found, expected", <<actual_count, 5>>))
        ELSE IF missing # <<>>
          THEN Put(Status(NetboxInitial, "Failed",
                          Fmt("Missing critical devices: ", missing)),
                   "missing_devices", List(missing))
        ELSE Status(counted, "Passed",
                    Fmt("All devices present and validated", actual_count))

\* validate_netbox, lines 86-118: the probe of the real API
NetboxFromApi(outcome) ==
  IF outcome.kind = "raise"
    THEN IF outcome.ConnectionError
           THEN Status(NetboxInitial, "Failed",
                       Str("Cannot connect to NetBox API - connection refused"))
         ELSE IF outcome.Timeout
           THEN Status(NetboxInitial, "Failed",
                       Str("NetBox API timeout - server did not respond"))
         ELSE Status(NetboxInitial, "Failed",
                     Fmt("NetBox validation error: ", "exception"))
  ELSE IF outcome.status_code >= 400
    THEN IF outcome.status_code = 401
           THEN Status(NetboxInitial, "Failed",
                       Str("NetBox authentication failed - invalid token"))
           ELSE Status(NetboxInitial, "Failed",
                       Fmt("NetBox API error: ", outcome.status_code))
  ELSE IF outcome.json.t # "obj"
    THEN Status(NetboxInitial, "Failed",
                Fmt("NetBox validation error: ", "exception"))
  ELSE
    LET device_count == IF "results" \in DOMAIN outcome.json.v
                          THEN Len(outcome.json.v["results"].v) ELSE 0
    IN  Put(Status(NetboxInitial, "Passed",
                   Fmt("NetBox API accessible, devices found", device_count)),
            "device_count", Num(device_count))

validate_netbox(base_url, token, sample, outcome) ==
  IF UsesSampleData(token)
    THEN Validated(NetboxFromSample(sample), <<>>)
    ELSE Validated(NetboxFromApi(outcome),
                   << Probe("NetBox", Fmt(base_url, "/api/dcim/devices/"),
                            Num(5), outcome) >>)

\* validate_syslog, lines 136-182.  simulate_crash is random.random() < 0.3.
validate_syslog(elk_endpoint, simulate_crash, outcome) ==
  LET initial == [k \in {"status", "details", "endpoint", "connector_status"} |->
                    CASE k = "status" -> Str("Not Run")
                      [] k = "details" -> Str("Syslog validation not executed")
                      [] k = "endpoint" -> Str(elk_endpoint)
                      [] OTHER -> Str("unknown")]
      probe == << Probe("Syslog", Fmt(elk_endpoint, "/_cluster/health"),
                        Num(3), outcome) >>
      Connector(d, c) == Put(d, "connector_status", Str(c))
  IN  IF simulate_crash
        THEN Validated(Connector(Status(initial, "Failed",
                 Str("ELK connector crashed intermittently - service unavailable")),
                 "crashed"), <<>>)
      ELSE IF outcome.kind = "response"
        THEN IF outcome.status_code = 200
               THEN Validated(Connector(Status(initial, "Passed",
                        Str("ELK cluster healthy and accessible")), "healthy"), probe)
               ELSE Validated(Connector(Status(initial, "Failed",
                        Fmt("ELK cluster unhealthy - status code: ",
                            outcome.status_code)), "unhealthy"), probe)
      ELSE IF outcome.ConnectionError
        THEN Validated(Connector(Status(initial, "Failed",
                 Str("Cannot connect to ELK cluster - connection refused")),
                 "unreachable"), probe)
      ELSE IF outcome.Timeout
        THEN Validated(Connector(Status(initial, "Failed",
                 Str("ELK cluster timeout - no response")), "timeout"), probe)
      ELSE Validated(Status(initial, "Failed",
                            Fmt("Syslog validation error: ", "exception")), probe)

\* validate_servicenow with `except ConnectionError` giving "Failed"
validate_servicenow_refusedfails(instance_url, outcome) ==
  LET initial == [k \in {"status", "details", "instance_url"} |->
                    CASE k = "status" -> Str("Not Run")
                      [] k = "details" -> Str("ServiceNow validation not executed")
                      [] OTHER -> Str(instance_url)]
      probe == << Probe("ServiceNow", Fmt(instance_url, "/api/now/table/cmdb_ci"),
                        Num(5), outcome) >>
  IN  IF outcome.kind = "response"
        THEN IF outcome.status_code = 200
               THEN Validated(Status(initial, "Passed",
                                     Str("ServiceNow API accessible")), probe)
             ELSE IF outcome.status_code = 401
               THEN Validated(Status(initial, "Failed",
                                     Str("ServiceNow authentication failed")), probe)
             ELSE Validated(Status(initial, "Failed",
                                   Fmt("ServiceNow API error: ", outcome.status_code)),
                            probe)
      ELSE IF outcome.ConnectionError
        THEN Validated(Status(initial, "Failed",
                 Str("ServiceNow endpoint configured (mock validation)")), probe)
      ELSE IF outcome.Timeout
        THEN Validated(Status(initial, "Failed", Str("ServiceNow API timeout")), probe)
      ELSE Validated(Status(initial, "Failed",
                            Fmt("ServiceNow validation error: ", "exception")), probe)

\* validate_servicenow, lines 196-231
validate_servicenow(instance_url, outcome) ==
  LET initial == [k \in {"status", "details", "instance_url"} |->
                    CASE k = "status" -> Str("Not Run")
                      [] k = "details" -> Str("ServiceNow validation not executed")
                      [] OTHER -> Str(instance_url)]
      probe == << Probe("ServiceNow", Fmt(instance_url, "/api/now/table/cmdb_ci"),
                        Num(5), outcome) >>
  IN  IF outcome.kind = "response"
        THEN IF outcome.status_code = 200
               THEN Validated(Status(initial, "Passed",
                                     Str("ServiceNow API accessible")), probe)
             ELSE IF outcome.status_code = 401
               THEN Validated(Status(initial, "Failed",
                                     Str("ServiceNow authentication failed")), probe)
             ELSE Validated(Status(initial, "Failed",
                                   Fmt("ServiceNow API error: ", outcome.status_code)),
                            probe)
      ELSE IF outcome.ConnectionError
        \* "For mock/placeholder URLs, assume passed if no connection"
        THEN Validated(Status(initial, "Passed",
                 Str("ServiceNow endpoint configured (mock validation)")), probe)
      ELSE IF outcome.Timeout
        THEN Validated(Status(initial, "Failed", Str("ServiceNow API timeout")), probe)
      ELSE Validated(Status(initial, "Failed",
                            Fmt("ServiceNow validation error: ", "exception")), probe)

\* validate_zendesk, lines 245-279
validate_zendesk(subdomain, api_url, outcome) ==
  LET initial == [k \in {"status", "details", "api_url"} |->
                    CASE k = "status" -> Str("Not Run")
                      [] k = "details" -> Str("Zendesk validation not executed")
                      [] OTHER -> Str(api_url)]
      probe == << Probe("Zendesk", Fmt(api_url, "/users/me.json"), Num(5), outcome) >>
  IN  IF outcome.kind = "response"
        THEN IF outcome.status_code = 200
               THEN Validated(Status(initial, "Passed",
                                     Str("Zendesk API accessible")), probe)
             ELSE IF outcome.status_code = 401
               THEN Validated(Status(initial, "Failed",
                                     Str("Zendesk authentication failed")), probe)
             ELSE Validated(Status(initial, "Failed",
                                   Fmt("Zendesk API error: ", outcome.status_code)),
                            probe)
      ELSE IF outcome.ConnectionError
        \* "For mock/placeholder URLs, assume passed if no connection"
        THEN Validated(Status(initial, "Passed",
                 Str("Zendesk endpoint configured (mock validation)")), probe)
      ELSE IF outcome.Timeout
        THEN Validated(Status(initial, "Failed", Str("Zendesk API timeout")), probe)
      ELSE Validated(Status(initial, "Failed",
                            Fmt("Zendesk validation error: ", "exception")), probe)

\* validate_flowanalytics with license_present True
validate_flowanalytics_licensed ==
  [k \in {"status", "details", "license_status"} |->
     CASE k = "status" -> Str("Passed")
       [] k = "details" -> Str("FlowAnalytics license valid")
       [] OTHER -> Str("valid")]

\* validate_flowanalytics, lines 293-320: license_present is the constant False
validate_flowanalytics ==
  [k \in {"status", "details", "license_status", "reason"} |->
     CASE k = "status" -> Str("Not Run")
       [] k = "details" -> Str("FlowAnalytics license missing - validation skipped")
       [] k = "license_status" -> Str("missing")
       [] OTHER -> Str("missing license")]

Components == <<"NetBox", "Syslog", "ServiceNow", "Zendesk", "FlowAnalytics">>

\* lines 401-409: how many components have the status
StatusCount(results, status) ==
  Cardinality({i \in 1..Len(Components) : results[Components[i]]["status"].v = status})

\* lines 408-409: every status that is neither "Passed" nor "Failed"
NotRunCount(results) ==
  Cardinality({i \in 1..Len(Components) :
                 results[Components[i]]["status"].v \notin {"Passed", "Failed"}})

\* validate_system_health, lines 363-415.  around is what the surroundings
\* answer during the call: the sample file, the random draw and the outcome
\* of each request.
validate_system_health(netbox_url, netbox_token, elk_endpoint, servicenow_url, zendesk_url, around) ==
  LET netbox == validate_netbox(netbox_url, netbox_token, around.sample, around.netbox)
      syslog == validate_syslog(elk_endpoint, around.crash, around.elk)
      servicenow == validate_servicenow(servicenow_url, around.servicenow)
      zendesk == validate_zendesk("example", zendesk_url, around.zendesk)
      flowanalytics == validate_flowanalytics
      Brief(r) == Dict2("status", r["status"], "details", r["details"])
      results ==
        [c \in {Components[i] : i \in 1..Len(Components)} |->
           CASE c = "NetBox" -> Brief(netbox.result)
             [] c = "Syslog" -> Brief(syslog.result)
             [] c = "ServiceNow" -> Brief(servicenow.result)
             [] c = "Zendesk" -> Brief(zendesk.result)
             [] OTHER -> IF "reason" \in DOMAIN flowanalytics
                           THEN Put(Brief(flowanalytics), "reason",
                                    flowanalytics["reason"])
                           ELSE Brief(flowanalytics)]
      status_counts ==
        [k \in {"Passed", "Failed", "NotRun"} |->
           CASE k = "Passed" -> Num(StatusCount(results, "Passed"))
             [] k = "Failed" -> Num(StatusCount(results, "Failed"))
             [] OTHER -> Num(NotRunCount(results))]
  IN  Validated(Put(results, "Total", status_counts),
                netbox.probes \o syslog.probes \o servicenow.probes \o zendesk.probes)

----------------------------------------------------------------------------
(* mcp_server.py and mcp_test_server.py as scripts, from start to exit *)

EntryPoints == {"mcp_server.py", "mcp_test_server.py"}

\* A line on standard output: a protocol message written by the serving loop
\* of mcp.run(), or text written by print()
ProtocolLine(tool) == [kind |-> "protocol", tool |-> tool]

TextLine(text) == [kind |-> "text", text |-> text]

\* A record handed to the logger of utils/logger.py
LogRecord(level, text) == [level |-> level, text |-> text]

Script(entry, pc, stdout, log) ==
  [entry |-> entry, pc |-> pc, stdout |-> stdout, log |-> log]

\* logger.info / logger.error of setup_logger(__name__): the record goes to
\* the logging channel, which is not standard output
LoggerWrite(script, level, text) ==
  [script EXCEPT !.log = Append(@, LogRecord(level, text))]

\* print(text): a line on standard output
PrintLine(script, text) == [script EXCEPT !.stdout = Append(@, TextLine(text))]

\* @mcp.tool() registrations of the two scripts
RegisteredTools(entry) ==
  IF entry = "mcp_server.py"
    THEN {"get_port_telemetry", "get_network_topology", "predict_link_health",
          "validate_build_metadata", "remediate_link"}
    ELSE {"get_link_status", "predict_link_health"}

\* Module level: mcp_server.py:9-21, mcp_test_server.py:1-12
ImportScript(script) ==
  LET at == [script EXCEPT !.pc = "main"] IN
    IF script.entry = "mcp_server.py"
      THEN LoggerWrite(at, "INFO", "Initializing Aviz NCP AI Agent MCP Server")
      ELSE at

MainBanner ==
  <<"Running Aviz NCP AI Agent MCP Server",
    "Available tools:",
    "  1. get_port_telemetry - Collect SONiC port telemetry",
    "  2. get_network_topology - Get multi-vendor network topology",
    "  3. predict_link_health - AI-based link health prediction",
    "  4. validate_build_metadata - Validate build JSON files",
    "  5. remediate_link - Automated link remediation recommendations",
    "Waiting for requests on stdio...">>

RECURSIVE LogAll(_, _, _)
LogAll(script, texts, i) ==
  IF i > Len(texts) THEN script
  ELSE LogAll(LoggerWrite(script, "INFO", texts[i]), texts, i + 1)

\* `if __name__ == "__main__":` up to the call of mcp.run():
\* mcp_server.py:196-204, mcp_test_server.py:14-15
MainScript(script) ==
  LET at == [script EXCEPT !.pc = "serving"] IN
    IF script.entry = "mcp_server.py"
      THEN LogAll(at, MainBanner, 1)
      ELSE PrintLine(at, "Running Aviz AI Agent prototype...")

\* The message the wrapper of a tool logs when its agent raises
WrapperErrorLog(tool) ==
  CASE tool = "get_port_telemetry" -> "Error collecting port telemetry"
    [] tool = "get_network_topology" -> "Error generating network topology"
    [] tool = "predict_link_health" -> "Error predicting link health"
    [] tool = "validate_build_metadata" -> "Error validating build metadata"
    [] OTHER -> "Error generating remediation recommendation"

\* mcp.run() serves one tools/call: the handler runs (in mcp_server.py its
\* wrapper logs an agent's exception) and the serving loop writes the
\* response line
ServeCall(script, tool, agentRaised) ==
  LET logged == IF script.entry = "mcp_server.py" /\ agentRaised
                  THEN LoggerWrite(script, "ERROR", WrapperErrorLog(tool))
                  ELSE script
  IN  [logged EXCEPT !.stdout = Append(@, ProtocolLine(tool))]

\* mcp.run() ends: it returns (end of input), or KeyboardInterrupt, or any
\* other exception; mcp_server.py:206-212 logs the last two, and Python
\* writes the traceback of an uncaught exception to standard error
ExitScript(script, how) ==
  LET at == [script EXCEPT !.pc = "exited"] IN
    IF script.entry # "mcp_server.py" \/ how = "return" THEN at
    ELSE IF how = "KeyboardInterrupt"
      THEN LoggerWrite(at, "INFO", "Server shutdown requested")
    ELSE LoggerWrite(at, "ERROR", "Fatal error in MCP server")

----------------------------------------------------------------------------
(* The client scripts: client_test.py, plot_chart.py, test_inventory_devices.py *)

ClientScripts == {"client_test.py", "plot_chart.py", "test_inventory_devices.py"}

\* A string that is the JSON encoding of the value v
JsonText(v) == [t |-> "jsontext", v |-> v]

\* What proc.stdout.readline() hands to the client: nothing (end of file),
\* a line that is not JSON, or a line that is the JSON encoding of a value
NoLine == [kind |-> "eof"]

TextOnLine == [kind |-> "text"]

JsonLine(v) == [kind |-> "json", v |-> v]

\* bool(v) of a decoded value
Truthy(v) ==
  CASE v.t = "null" -> FALSE
    [] v.t = "num" -> v.v # 0
    [] v.t = "bool" -> v.v
    [] v.t = "list" -> Len(v.v) > 0
    [] v.t = "obj" -> DOMAIN v.v # {}
    [] OTHER -> TRUE

\* `key in v`: an outcome, since it raises TypeError for a number, a boolean
\* and None
In(key, v) ==
  CASE v.t = "obj" -> Return(key \in DOMAIN v.v)
    [] v.t = "list" -> Return(\E i \in 1..Len(v.v) :
                                 v.v[i].t = "str" /\ "v" \in DOMAIN v.v[i]
                                   /\ v.v[i].v = key)
    [] OTHER -> Raise("TypeError")

\* read_response: client_test.py:20-37, plot_chart.py:45-62,
\* test_inventory_devices.py:29-40.  None for no line and for a line that
\* does not decode; plot_chart.py also requires the line to start with "{".
read_response(script, line) ==
  IF line.kind # "json" THEN Null
  ELSE IF script = "plot_chart.py" /\ line.v.t # "obj" THEN Null
  ELSE line.v

\* The test on the initialize response and the use of its result:
\* "proceed", "exit" (sys.exit(1)) or "raise" (an exception)
\* client_test.py:89-94, plot_chart.py:166-175, test_inventory_devices.py:175-184
CheckInitResponse(init_response) ==
  IF ~Truthy(init_response) THEN "exit"
  ELSE LET has == In("result", init_response) IN
    IF has.kind = "raise" THEN "raise"
    ELSE IF ~has.value THEN "exit"
    ELSE IF init_response.t # "obj" THEN "raise"
    ELSE IF init_response.v["result"].t # "obj" THEN "raise"
    ELSE "proceed"

\* The exit status of a script that leaves by sys.exit(1) or by an exception
\* after the server was started.  client_test.py runs at module level with
\* no handler; the main() of the other two catches Exception, cleans up and
\* returns.
StatusAfter(script, how) ==
  IF how = "exit" THEN 1
  ELSE IF script = "client_test.py" THEN 1
  ELSE 0

\* json.loads(content_text) with its except clause
DecodeText(text) ==
  IF text.t = "jsontext" THEN Return(text.v)
  ELSE IF text.t = "str" THEN Return(Obj("raw_content" :> text))
  ELSE Raise("TypeError")

\* The content item handling of call_tool.  client_test.py:53-57 calls
\* .get("text", "{}") on the item; the other two test "json" in / "text" in
\* the item (plot_chart.py:87-96, test_inventory_devices.py:62-69).
DecodeItem(script, item, result) ==
  IF script = "client_test.py"
    THEN IF item.t # "obj" THEN Raise("AttributeError")
         ELSE IF "text" \in DOMAIN item.v THEN DecodeText(item.v["text"])
         ELSE Return(Obj(EmptyDict))
  ELSE LET hasJson == In("json", item) IN
    IF hasJson.kind = "raise" THEN hasJson
    ELSE IF item.t # "obj" THEN Return(result)
    ELSE IF hasJson.value THEN Return(item.v["json"])
    ELSE IF "text" \in DOMAIN item.v THEN DecodeText(item.v["text"])
    ELSE Return(result)

\* plot_chart.py:100-103, test_inventory_devices.py:72-75 return the message
\* of the error; client_test.py:60 returns the error itself
ErrorData(script, error) ==
  IF script = "client_test.py" THEN Obj("error" :> error)
  ELSE IF error.t = "obj" /\ "message" \in DOMAIN error.v
    THEN Obj("error" :> error.v["message"])
  ELSE Obj("error" :> Str("str(error)"))

\* call_tool after the request was written: what it returns for the
\* response read, or the exception it raises
\* client_test.py:49-61, plot_chart.py:81-105, test_inventory_devices.py:57-77
call_tool(script, line) ==
  LET response == read_response(script, line) IN
    IF ~Truthy(response) THEN Return(Null)
    ELSE LET hasResult == In("result", response) IN
      IF hasResult.kind = "raise" THEN hasResult
      ELSE IF hasResult.value /\ response.t = "obj"
        THEN LET result == response.v["result"]
                 hasContent == In("content", result)
             IN  IF hasContent.kind = "raise" THEN hasContent
                 ELSE IF hasContent.value /\ result.t = "obj"
                           /\ result.v["content"].t \in {"num", "bool", "null"}
                   THEN Raise("TypeError")
                 ELSE IF hasContent.value /\ result.t = "obj"
                           /\ result.v["content"].t = "list"
                           /\ Len(result.v["content"].v) > 0
                   THEN DecodeItem(script, result.v["content"].v[1], result)
                 ELSE Return(result)
      ELSE IF hasResult.value THEN Raise("TypeError")
      ELSE LET hasError == In("error", response) IN
        IF hasError.value /\ response.t = "obj"
          THEN Return(ErrorData(script, response.v["error"]))
          ELSE Return(Null)

\* The tools client_test.py calls, in order; the call of Test 8 is inside a
\* try whose except clause prints and goes on (client_test.py:263-335)
Test(name, guarded) == [name |-> name, guarded |-> guarded]

Tests(script) ==
  IF script = "client_test.py"
    THEN << Test("get_port_telemetry", FALSE),
            Test("get_network_topology", FALSE),
            Test("predict_link_health", FALSE),
            Test("validate_build_metadata", FALSE),
            Test("remediate_link", FALSE),
            Test("get_device_status_from_telnet", FALSE),
            Test("get_topology_from_netbox", FALSE),
            Test("get_device_and_interface_report", TRUE),
            Test("validate_system_health", FALSE),
            Test("get_inventory_devices", FALSE) >>
  ELSE IF script = "plot_chart.py"
    THEN << Test("get_telemetry_timeseries", FALSE) >>
  ELSE << Test("get_inventory_devices", FALSE) >>

\* send_request: the id is the request_id argument
Request(method, id, name) == [method |-> method, id |-> id, name |-> name]

\* the initialized notification has no id
Notification == [method |-> "notifications/initialized"]

\* no data: call_tool raised
CallRaised == [t |-> "raised"]

ClientAt(script, pc, test, request_id, sent, data, status) ==
  [script |-> script, pc |-> pc, test |-> test, request_id |-> request_id,
   sent |-> sent, data |-> data, status |-> status]

\* What the script does with the data of its one call: plot_chart.py:197-217
\* and test_inventory_devices.py:207-209 leave by sys.exit(1) or go on
AfterCall(script, data) ==
  IF script = "client_test.py" THEN "next"
  ELSE IF ~Truthy(data) THEN "exit"
  ELSE IF script = "test_inventory_devices.py" THEN "next"
  ELSE IF data.t # "obj" THEN "raise"
  ELSE IF "error" \in DOMAIN data.v THEN "exit"
  ELSE IF "timestamps" \notin DOMAIN data.v \/ "values" \notin DOMAIN data.v THEN "exit"
  ELSE IF ~Truthy(data.v["timestamps"]) \/ ~Truthy(data.v["values"]) THEN "exit"
  ELSE IF Len(data.v["timestamps"].v) # Len(data.v["values"].v) THEN "exit"
  ELSE "next"

\* The script after a tools/call for its current test was written and the
\* line was read
AfterToolCall(c, line) ==
  LET out == call_tool(c.script, line)
      written == Append(c.sent, Request("tools/call", c.request_id,
                                        Tests(c.script)[c.test].name))
      last_test == c.test = Len(Tests(c.script))
      onward == IF last_test THEN "close" ELSE "call"
      following == IF last_test THEN c.test ELSE c.test + 1
  IN
    IF out.kind = "raise"
      THEN IF c.script = "client_test.py" /\ Tests(c.script)[c.test].guarded
             \* the except clause of Test 8: request_id += 1 was skipped
             THEN ClientAt(c.script, onward, following, c.request_id, written,
                           CallRaised, c.status)
             ELSE ClientAt(c.script, "exited", c.test, c.request_id, written,
                           CallRaised, StatusAfter(c.script, "raise"))
    ELSE IF c.script = "client_test.py"
      THEN ClientAt(c.script, onward, following, c.request_id + 1, written,
                    out.value, c.status)
    ELSE LET then == AfterCall(c.script, out.value) IN
      IF then = "next"
        THEN ClientAt(c.script, "close", c.test, c.request_id, written,
                      out.value, c.status)
        ELSE ClientAt(c.script, "exited", c.test, c.request_id, written,
                      out.value, StatusAfter(c.script, then))

----------------------------------------------------------------------------
(* Bounds and input sets *)

MaxSeed == 2

MaxRuns == 2

\* Lines a script writes to standard output before the model stops serving
MaxLines == 3

Seeds == 0..MaxSeed

\* random.randint(10_000, 10_000_000), random.randint(0, 10),
\* random.uniform(0.2, 0.95) in thousandths
MinBytes == 10000

MaxBytes == 10000000

MaxErrors == 10

MinUtil == 200

MaxUtil == 950

Faults == {"none", "inner", "outer"}

Interfaces == {Str(""), Str("Ethernet12"), Str("GigabitEthernet0/1")}

ServerFiles ==
  { FsWith(b, FileAbsent, a) : b \in {FileAbsent, FileJson(Obj(SampleSonic))},
                               a \in {FileInvalidJson, FileJson(List(<<>>))} }

BuildFiles ==
  { FsWith(b, FileAbsent, FileAbsent) : b \in FileContents }
    \cup { FsWith(b, w, a) : b \in SmallContents, w \in SmallContents,
                             a \in SmallContents }

\* What validate_system_health can meet
Tokens == {"", PlaceholderToken, "0123456789abcdef"}

NamedDevices(names) == List([i \in 1..Len(names) |-> Obj("name" :> Str(names[i]))])

SampleFiles ==
  {FileAbsent, FileInvalidJson}
    \cup { FileJson(Obj("devices" :> NamedDevices(names))) :
             names \in { <<"sonic-leaf-01", "sonic-spine-01", "edge-01", "edge-02", "edge-03">>,
                         <<"sonic-leaf-01", "sonic-leaf-02", "edge-01", "edge-02", "edge-03">>,
                         <<"core-01", "core-02", "edge-01", "edge-02", "edge-03">>,
                         <<"sonic-leaf-01", "sonic-spine-01", "edge-01", "edge-02">> } }

Outcomes ==
  {Response(200, NotJson), Response(401, NotJson), Response(500, NotJson),
   ConnectionRefused, ConnectTimeout, ReadTimeout, OtherRequestError}

NetboxOutcomes ==
  Outcomes \cup {Response(200, Obj("results" :> NamedDevices(<<"sonic-leaf-01", "edge-01">>)))}

Env(sample, crash, netbox, elk, servicenow, zendesk) ==
  [sample |-> sample, crash |-> crash, netbox |-> netbox, elk |-> elk,
   servicenow |-> servicenow, zendesk |-> zendesk]

Envs ==
  { Env(sample, crash, netbox, elk, servicenow, zendesk) :
      sample \in SampleFiles, crash \in BOOLEAN, netbox \in NetboxOutcomes,
      elk \in Outcomes, servicenow \in Outcomes, zendesk \in Outcomes }

\* No sample file and no endpoint to connect to
Offline ==
  Env(FileAbsent, FALSE, ConnectionRefused, ConnectionRefused, ConnectionRefused,
      ConnectionRefused)

\* The lines a client can read from the server's standard output
InitResult == Obj(("id" :> Num(1)) @@ ("result" :> Obj("serverInfo" :> Obj("name" :> Str("x")))))

SomeData ==
  Obj(("timestamps" :> List(<<Num(1)>>)) @@ ("values" :> List(<<Num(50)>>))
        @@ ("success" :> Bool(TRUE)))

TextResult(text) ==
  Obj("result" :> Obj("content" :> List(<<Obj(("type" :> Str("text")) @@ ("text" :> text))>>)))

Lines ==
  { NoLine, TextOnLine, JsonLine(Num(5)), JsonLine(InitResult),
    JsonLine(TextResult(JsonText(SomeData))),
    JsonLine(TextResult(Str("Unknown tool"))),
    JsonLine(Obj("error" :> Obj("message" :> Str("failed")))),
    JsonLine(Obj("id" :> Num(1))),
    JsonLine(Obj("result" :> Null)),
    JsonLine(Obj("result" :> Obj("content" :> List(<<Num(5)>>)))) }

----------------------------------------------------------------------------
(* The server process *)

NoCall == [tool |-> "none", args |-> <<>>, agent |-> "none", outcome |-> "none",
           result |-> EmptyDict, score |-> -1, scenario |-> 0]

NoPred == [called |-> FALSE]

NoReport == [called |-> FALSE]

\* No script is followed from its start
NoScript == Script("none", "none", <<>>, <<>>)

\* mcp_server.py inside mcp.run(), its output not followed
Serving == Script("mcp_server.py", "serving", <<>>, <<>>)

NoClient == [script |-> "none"]

\* validation_agent.py imports no ai_agent: its process holds no health model
NoModel == [loaded |-> FALSE]

Call(tool, args, agentOut, out, score, scenario) ==
  [tool |-> tool, args |-> args, agent |-> agentOut.kind, outcome |-> out.kind,
   result |-> out.value, score |-> score, scenario |-> scenario]

InitServer ==
  /\ run = 1
  /\ \E s \in Seeds : model = InitWeights(s)
  /\ last = NoCall
  /\ predLog = NoPred
  /\ env = Offline
  /\ health = NoReport
  /\ stdio = Serving
  /\ client = NoClient

Init ==
  /\ InitServer
  /\ fs \in ServerFiles

InitBuild ==
  /\ InitServer
  /\ fs \in BuildFiles

InitHealth ==
  /\ InitServer
  /\ fs = FsWith(FileAbsent, FileAbsent, FileAbsent)

\* The server exits and mcp_server.py is started again: ai_agent is imported
\* afresh and builds a new model.
Restart ==
  /\ run < MaxRuns
  /\ run' = run + 1
  /\ \E s \in Seeds : model' = InitWeights(s)
  /\ UNCHANGED <<fs, last, predLog, env, health, stdio, client>>

CallGetPortTelemetry(rb, tb, re, te, u, fault) ==
  /\ last' = Call("get_port_telemetry", <<>>,
                  agent_get_port_telemetry(rb, tb, re, te, u, fault),
                  tool_get_port_telemetry(rb, tb, re, te, u, fault), -1, 0)
  /\ UNCHANGED <<run, model, fs, predLog, env, health, stdio, client>>

CallGetNetworkTopology(fault) ==
  /\ last' = Call("get_network_topology", <<>>,
                  agent_get_network_topology(fault),
                  tool_get_network_topology(fault), -1, 0)
  /\ UNCHANGED <<run, model, fs, predLog, env, health, stdio, client>>

\* predict_link_health that leaves the module-level model with other weights
CallPredictLinkHealth_rebuilds(rx, tx, u, fault) ==
  LET out == tool_predict_link_health(model, rx, tx, u, fault)
      score == ScoreOf(model, rx, tx, u, fault)
  IN /\ last' = Call("predict_link_health", <<rx, tx, u>>,
                     agent_predict_link_health(model, rx, tx, u, fault),
                     out, score, 0)
     /\ predLog' = [called |-> TRUE, run |-> run, args |-> <<rx, tx, u>>,
                    outcome |-> out.kind, result |-> out.value, score |-> score]
     /\ model' = IF model = InitWeights(0) THEN InitWeights(1) ELSE InitWeights(0)
     /\ UNCHANGED <<run, fs, env, health, stdio, client>>

CallPredictLinkHealth(rx, tx, u, fault) ==
  LET out == tool_predict_link_health(model, rx, tx, u, fault)
      score == ScoreOf(model, rx, tx, u, fault)
  IN /\ last' = Call("predict_link_health", <<rx, tx, u>>,
                     agent_predict_link_health(model, rx, tx, u, fault),
                     out, score, 0)
     /\ predLog' = [called |-> TRUE, run |-> run, args |-> <<rx, tx, u>>,
                    outcome |-> out.kind, result |-> out.value, score |-> score]
     /\ UNCHANGED <<run, model, fs, env, health, stdio, client>>

CallValidateBuildMetadata(path) ==
  /\ last' = Call("validate_build_metadata", <<path>>,
                  agent_validate_build_metadata(fs, path),
                  tool_validate_build_metadata(fs, path), -1, 0)
  /\ UNCHANGED <<run, model, fs, predLog, env, health, stdio, client>>

CallRemediateLink(interface, choice, fault) ==
  /\ last' = Call("remediate_link", <<interface>>,
                  agent_remediate_link(interface, choice, fault),
                  tool_remediate_link(interface, choice, fault), -1,
                  SelectedScenario(interface, choice, fault))
  /\ UNCHANGED <<run, model, fs, predLog, env, health, stdio, client>>

GetPortTelemetry ==
  \E rb \in {MinBytes, MaxBytes}, re \in {0, MaxErrors},
     u \in {MinUtil, 204, 575, 946, MaxUtil},
     fault \in BOOLEAN :
       CallGetPortTelemetry(rb, MaxBytes, re, 0, u, fault)

GetNetworkTopology == \E fault \in Faults : CallGetNetworkTopology(fault)

PredictLinkHealth ==
  \E rx \in {-2, 2}, u \in {85, 150}, fault \in Faults :
       CallPredictLinkHealth(rx, 5, u, fault)

ValidateBuildMetadata == \E path \in Paths : CallValidateBuildMetadata(path)

RemediateLink ==
  \E interface \in Interfaces, choice \in 1..Len(scenarios), fault \in BOOLEAN :
       CallRemediateLink(interface, choice, fault)

\* predict_link_health over the wider input set of the numerical checks
HealthPredict ==
  \E rx \in {-2, 0, 2}, tx \in {-1, 5}, u \in {-20, 0, 85, 100, 150},
     fault \in Faults :
       CallPredictLinkHealth(rx, tx, u, fault)

Next ==
  \/ Restart
  \/ GetPortTelemetry
  \/ GetNetworkTopology
  \/ PredictLinkHealth
  \/ ValidateBuildMetadata
  \/ RemediateLink

Spec == Init /\ [][Next]_vars

NextBuild == ValidateBuildMetadata

SpecBuild == InitBuild /\ [][NextBuild]_vars

NextHealth == Restart \/ HealthPredict

SpecHealth == InitHealth /\ [][NextHealth]_vars

\* A process that runs the system health validation with its defaults and a
\* NetBox token
InitValidation ==
  /\ run = 1
  /\ model = NoModel
  /\ fs = FsWith(FileAbsent, FileAbsent, FileAbsent)
  /\ last = NoCall
  /\ predLog = NoPred
  /\ env \in Envs
  /\ health = NoReport
  /\ stdio = NoScript
  /\ client = NoClient

CallValidateSystemHealth(netbox_token) ==
  LET out == validate_system_health("https://netbox.example.com", netbox_token,
                                    "http://elk.example.com:9200",
                                    "https://example.service-now.com",
                                    "https://example.zendesk.com/api/v2", env)
  IN  /\ health' = [called |-> TRUE, netbox_token |-> netbox_token,
                    report |-> out.result, probes |-> out.probes]
      /\ UNCHANGED <<run, model, fs, last, predLog, env, stdio, client>>

ValidateSystemHealth == \E netbox_token \in Tokens : CallValidateSystemHealth(netbox_token)

NextValidation == ValidateSystemHealth

SpecValidation == InitValidation /\ [][NextValidation]_vars

\* A server script run from its first line
InitStartup ==
  /\ run = 1
  /\ model = NoModel
  /\ fs = FsWith(FileAbsent, FileAbsent, FileAbsent)
  /\ last = NoCall
  /\ predLog = NoPred
  /\ env = Offline
  /\ health = NoReport
  /\ \E entry \in EntryPoints : stdio = Script(entry, "import", <<>>, <<>>)
  /\ client = NoClient

StartupFrame == UNCHANGED <<run, model, fs, last, predLog, env, health, client>>

Import ==
  /\ stdio.pc = "import"
  /\ stdio' = ImportScript(stdio)
  /\ StartupFrame

Main ==
  /\ stdio.pc = "main"
  /\ stdio' = MainScript(stdio)
  /\ StartupFrame

Serve ==
  /\ stdio.pc = "serving"
  /\ Len(stdio.stdout) < MaxLines
  /\ \E tool \in RegisteredTools(stdio.entry), agentRaised \in BOOLEAN :
       stdio' = ServeCall(stdio, tool, agentRaised)
  /\ StartupFrame

Exit ==
  /\ stdio.pc = "serving"
  /\ \E how \in {"return", "KeyboardInterrupt", "Exception"} :
       stdio' = ExitScript(stdio, how)
  /\ StartupFrame

NextStartup == Import \/ Main \/ Serve \/ Exit

SpecStartup == InitStartup /\ [][NextStartup]_vars

\* A client script that has started the server
InitClient ==
  /\ run = 1
  /\ model = NoModel
  /\ fs = FsWith(FileAbsent, FileAbsent, FileAbsent)
  /\ last = NoCall
  /\ predLog = NoPred
  /\ env = Offline
  /\ health = NoReport
  /\ stdio = NoScript
  /\ \E script \in ClientScripts :
       client = ClientAt(script, "initialize", 1, 0, <<>>, Null, -1)

ClientFrame == UNCHANGED <<run, model, fs, last, predLog, env, health, stdio>>

\* write the initialize request, with the literal id 1
ClientInitialize ==
  /\ client.pc = "initialize"
  /\ client' = [client EXCEPT !.pc = "read_init",
                              !.sent = Append(@, Request("initialize", 1, ""))]
  /\ ClientFrame

\* read the initialize response and test it
ClientReadInit ==
  /\ client.pc = "read_init"
  /\ \E line \in Lines :
       LET init_response == read_response(client.script, line)
           check == CheckInitResponse(init_response)
       IN  client' = IF check = "proceed"
                       THEN [client EXCEPT !.pc = "notify", !.data = init_response]
                       ELSE [client EXCEPT !.pc = "exited", !.data = init_response,
                                           !.status = StatusAfter(client.script, check)]
  /\ ClientFrame

\* write the initialized notification; request_id = 2
ClientNotify ==
  /\ client.pc = "notify"
  /\ client' = [client EXCEPT !.pc = "call", !.request_id = 2,
                              !.sent = Append(@, Notification)]
  /\ ClientFrame

\* one call_tool and what follows it up to the next call
ClientCall ==
  /\ client.pc = "call"
  /\ \E line \in Lines : client' = AfterToolCall(client, line)
  /\ ClientFrame

\* proc.stdin.close() and the end of the script
ClientClose ==
  /\ client.pc = "close"
  /\ client' = [client EXCEPT !.pc = "exited", !.status = 0]
  /\ ClientFrame

NextClient ==
  \/ ClientInitialize
  \/ ClientReadInit
  \/ ClientNotify
  \/ ClientCall
  \/ ClientClose

SpecClient == InitClient /\ [][NextClient]_vars

----------------------------------------------------------------------------
(* Properties *)

IsCall(tool) == last.tool = tool

\* The file a validate_build_metadata call with this path reads
FileRead(path) ==
  LET loc == ResolvePath(fs, path) IN
    IF loc \in DOMAIN fs THEN fs[loc] ELSE FileAbsent

ErrorAndMessage(result) == {"error", "message"} \subseteq DOMAIN result

\* C3: for each of the five tools, an exception raised by the agent function
\* is caught by the tool wrapper and turned into a normally returned mapping
\* that has both an `error` and a `message` key; it never leaves the wrapper.
C3_WrapperCatches ==
  last.agent = "raise" =>
    /\ last.outcome = "return"
    /\ ErrorAndMessage(last.result)

\* C3 witness: the agent of validate_build_metadata raised (the file holds
\* JSON that is not an object) and the tool returned a mapping.
C3_Witness ==
  /\ IsCall("validate_build_metadata")
  /\ last.agent = "raise"
  /\ last.outcome = "return"

\* C3 witness for the injected failures of the other four tools
C3_WitnessAllTools ==
  /\ last.agent = "raise"
  /\ last.tool \in {"get_port_telemetry", "get_network_topology",
                    "predict_link_health", "remediate_link"}

LoadFails(path) == FileRead(path).k \in {"absent", "invalid"}

\* C4 as stated: validate_build_metadata on a path whose file does not exist
\* or is not valid JSON is answered with a returned payload that has both an
\* `error` key and a `message` key.
C4_Original ==
  (IsCall("validate_build_metadata") /\ LoadFails(last.args[1])) =>
    /\ last.outcome = "return"
    /\ ErrorAndMessage(last.result)

\* C4 amended: such a call is answered with a returned payload that has
\* valid=false, device_type null and an `errors` list with the single entry
\* "Failed to load build file: <path>", and neither an `error` nor a
\* `message` key.
C4_LoadFailureResult ==
  (IsCall("validate_build_metadata") /\ LoadFails(last.args[1])) =>
    /\ last.outcome = "return"
    /\ last.agent = "return"
    /\ DOMAIN last.result = {"valid", "device_type", "errors", "warnings", "metadata"}
    /\ last.result["valid"] = Bool(FALSE)
    /\ last.result["device_type"] = Null
    /\ last.result["errors"] = List(<<LoadFailedMsg(last.args[1])>>)
    /\ "error" \notin DOMAIN last.result
    /\ "message" \notin DOMAIN last.result

\* C4 witness: a call on a file that is present but not valid JSON
C4_Witness ==
  /\ IsCall("validate_build_metadata")
  /\ FileRead(last.args[1]).k = "invalid"
  /\ last.outcome = "return"

ReadsAristaTwoFields ==
  /\ IsCall("validate_build_metadata")
  /\ FileRead(last.args[1]) = FileJson(Obj(AristaTwoFields))

\* C5 as stated: on the file {"platform": "x86_64-arista_7170_64c",
\* "version": "202311.1"} the build is classified SONiC and the result has
\* valid=false with an error listing exactly kernel_version and build_date.
C5_Original ==
  ReadsAristaTwoFields =>
    /\ last.result["device_type"] = Str("SONiC")
    /\ last.result["valid"] = Bool(FALSE)
    /\ last.result["errors"] = List(<<MissingMsg(<<"kernel_version", "build_date">>)>>)

\* C5 amended: on that file the build is classified non-SONiC (neither type
\* nor platform contains "sonic") and the result has valid=false with an
\* error listing exactly vendor, model, os_version and firmware_version.
C5_AristaIsNonSonic ==
  ReadsAristaTwoFields =>
    /\ last.result["device_type"] = Str("non-SONiC")
    /\ last.result["valid"] = Bool(FALSE)
    /\ last.result["errors"] =
         List(<<MissingMsg(<<"vendor", "model", "os_version", "firmware_version">>)>>)

\* C5 witness: the call on that file has returned
C5_Witness == ReadsAristaTwoFields /\ last.outcome = "return"

\* The classification the specification describes: SONiC when the type or
\* the platform field is a string that contains "sonic" in any case.
NamesSonic(d, key) ==
  /\ key \in DOMAIN d
  /\ d[key].t = "str"
  /\ Contains(Lower(d[key].c), SonicWord)

RequiredOf(d) ==
  IF NamesSonic(d, "type") \/ NamesSonic(d, "platform")
    THEN SonicRequired ELSE NonSonicRequired

RECURSIVE SeqToSet(_)
SeqToSet(q) == IF q = <<>> THEN {} ELSE {Head(q)} \cup SeqToSet(Tail(q))

ReadsObject ==
  /\ IsCall("validate_build_metadata")
  /\ FileRead(last.args[1]).k = "json"
  /\ FileRead(last.args[1]).v.t = "obj"

\* C6: for every loadable build metadata object the result has valid=true
\* exactly when every required field of its classification is present, and
\* when valid=false the errors list names exactly the missing required
\* fields of that classification.
C6_ValidIffRequiredPresent ==
  ReadsObject =>
    LET d == FileRead(last.args[1]).v.v
        missing == MissingOf(RequiredOf(d), d)
    IN /\ last.result["valid"] = Bool(SeqToSet(RequiredOf(d)) \subseteq DOMAIN d)
       /\ last.result["valid"] = Bool(FALSE) =>
            last.result["errors"] = List(<<MissingMsg(missing)>>)

\* The values C6 is about when it holds: type and platform, when present,
\* are strings.
StringTyped(d) ==
  \A key \in {"type", "platform"} : key \in DOMAIN d => d[key].t = "str"

\* C6 restricted to objects whose type and platform are strings
C6_HoldsWhenStringTyped ==
  (ReadsObject /\ StringTyped(FileRead(last.args[1]).v.v)) =>
    C6_ValidIffRequiredPresent

Succeeded == IsCall("predict_link_health") /\ "inputs" \in DOMAIN last.result

\* C7: predict_link_health normalises before scoring: a negative rx_errors
\* or tx_errors is replaced by its absolute value, a utilization outside
\* [0,1] is clamped, values in range are unchanged, and the `inputs` echo
\* holds the normalised values (utilization in hundredths).
C7_InputsNormalized ==
  Succeeded =>
    LET rx == last.args[1]
        tx == last.args[2]
        u == last.args[3]
        echo == last.result["inputs"].v
        nrx == IF rx < 0 THEN -rx ELSE rx
        ntx == IF tx < 0 THEN -tx ELSE tx
        nu == IF u < 0 THEN 0 ELSE IF u > 100 THEN 100 ELSE u
    IN /\ echo["rx_errors"] = Num(nrx)
       /\ echo["tx_errors"] = Num(ntx)
       /\ echo["utilization"] = Num(nu)
       /\ predLog.run = run => last.score = ModelScore(model, nrx, ntx, nu)

\* C7 witness: rx_errors=-2, tx_errors=5, utilization=1.5 echoes 2, 5, 1.0
C7_Witness ==
  /\ Succeeded
  /\ last.args = <<-2, 5, 150>>
  /\ last.result["inputs"].v["rx_errors"] = Num(2)
  /\ last.result["inputs"].v["tx_errors"] = Num(5)
  /\ last.result["inputs"].v["utilization"] = Num(100)

HasScore(p) == p.called /\ p.outcome = "return" /\ "inputs" \in DOMAIN p.result

\* C8: two predict_link_health calls with identical arguments, in the same
\* server process or in two runs of the server, return an identical
\* health_score and an identical status.
C8_Deterministic ==
  [][(HasScore(predLog) /\ HasScore(predLog') /\ predLog'.args = predLog.args) =>
       /\ predLog'.result["health_score"] = predLog.result["health_score"]
       /\ predLog'.result["status"] = predLog.result["status"]]_vars

\* C8 within one server process
C8_DeterministicInProcess ==
  [][(HasScore(predLog) /\ HasScore(predLog') /\ predLog'.args = predLog.args
        /\ predLog'.run = predLog.run) =>
       /\ predLog'.result["health_score"] = predLog.result["health_score"]
       /\ predLog'.result["status"] = predLog.result["status"]]_vars

\* C9 as stated: in a successful result health_score lies in [0,1]
\* (thousandths here) and status is "healthy" exactly when the returned
\* health_score is greater than 0.7, "warning" otherwise.
C9_Original ==
  Succeeded =>
    LET hs == last.result["health_score"].v IN
      /\ 0 <= hs /\ hs <= 1000
      /\ last.result["status"] \in {Str("healthy"), Str("warning")}
      /\ last.result["status"] = Str("healthy") <=> hs > 700

\* C9 amended: in a successful result health_score lies in [0,1] and status
\* is "healthy" exactly when the unrounded model score is greater than 0.7,
\* "warning" otherwise; health_score is that score rounded to three
\* decimals, so a healthy result has health_score >= 0.7 and a warning
\* result has health_score <= 0.7.
C9_StatusFromUnroundedScore ==
  Succeeded =>
    LET hs == last.result["health_score"].v IN
      /\ 0 <= hs /\ hs <= 1000
      /\ last.result["status"] \in {Str("healthy"), Str("warning")}
      /\ last.result["status"] = Str("healthy") <=> last.score > HealthyThreshold
      /\ last.result["status"] = Str("healthy") => hs >= 700
      /\ last.result["status"] = Str("warning") => hs <= 700

\* C9 witness: a healthy result whose returned health_score is exactly 0.7
C9_Witness ==
  /\ Succeeded
  /\ last.result["status"] = Str("healthy")
  /\ last.result["health_score"] = Num(700)

CalledWithEmptyInterface ==
  IsCall("remediate_link") /\ last.args = <<Str("")>>

\* C10: remediate_link with an empty interface string returns an error
\* result (an `error` key is present) and never a recommended action:
\* recommended_action is null and no scenario is selected.
C10_EmptyInterfaceRejected ==
  CalledWithEmptyInterface =>
    /\ last.outcome = "return"
    /\ "error" \in DOMAIN last.result
    /\ last.result["recommended_action"] = Null
    /\ last.scenario = 0
    /\ "reason" \notin DOMAIN last.result

\* C10 witness: the agent itself returned for the empty interface
C10_Witness ==
  /\ CalledWithEmptyInterface
  /\ last.agent = "return"
  /\ last.result["error"] = Str("Invalid interface parameter")

RemediatedNonEmpty ==
  /\ IsCall("remediate_link")
  /\ last.args[1].v # ""
  /\ last.agent = "return"

\* A remediation result without the echoed interface
WithoutInterface(result) == [k \in DOMAIN result \ {"interface"} |-> result[k]]

\* The results remediate_link can return for an interface
PossibleResults(interface) ==
  { agent_remediate_link(interface, c, FALSE).value : c \in 1..Len(scenarios) }

\* C11: for a non-empty interface name remediate_link returns exactly one of
\* the four fixed scenario payloads (restart_port, reapply_config,
\* clear_counters, no_remediation_needed) with that scenario's own reason,
\* confidence, estimated downtime and device type, and the possible results
\* of any two interface names differ only in the echoed `interface`.
C11_OneOfFourScenarios ==
  RemediatedNonEmpty =>
    /\ last.outcome = "return"
    /\ last.scenario \in 1..4
    /\ LET sc == scenarios[last.scenario] IN
         /\ last.result["recommended_action"] = Str(sc.action)
         /\ last.result["reason"] = Str(sc.reason)
         /\ last.result["confidence"] = Num(sc.confidence)
         /\ last.result["estimated_downtime_seconds"] =
              Num(sc.estimated_downtime_seconds)
         /\ last.result["device_type"] = Str(sc.device_type)
    /\ last.result["recommended_action"] \in
         {Str("restart_port"), Str("reapply_config"), Str("clear_counters"),
          Str("no_remediation_needed")}
    /\ last.result["interface"] = last.args[1]
    /\ \A other \in Interfaces :
         other.v # "" =>
           WithoutInterface(last.result) \in
             { WithoutInterface(r) : r \in PossibleResults(other) }

\* C11 witness: a call for GigabitEthernet0/1 returned clear_counters
C11_Witness ==
  /\ RemediatedNonEmpty
  /\ last.args = <<Str("GigabitEthernet0/1")>>
  /\ last.result["recommended_action"] = Str("clear_counters")
  /\ last.result["confidence"] = Num(78)

----------------------------------------------------------------------------
(* C20: outbound probes of the validation collaborators *)

\* The probe raised a connection failure or a timeout
ConnectionFailedOrTimedOut(outcome) ==
  outcome.kind = "raise" /\ (outcome.ConnectionError \/ outcome.Timeout)

\* requests.get was given a timeout of some seconds
HasExplicitTimeout(probe) == probe.timeout.t = "num" /\ probe.timeout.v > 0

ComponentStatus(component) == health.report[component]["status"].v

\* The components whose `except ConnectionError` clause reports "Passed"
AssumePassedOffline == {"ServiceNow", "Zendesk"}

\* C20 as stated: every probe carries an explicit timeout, and a probe that
\* ends in a connection failure or a timeout gives its component the status
\* "Failed".
C20_Original ==
  health.called =>
    \A i \in 1..Len(health.probes) :
      LET probe == health.probes[i] IN
        /\ HasExplicitTimeout(probe)
        /\ ConnectionFailedOrTimedOut(probe.outcome) =>
             ComponentStatus(probe.component) = "Failed"

\* C20 amended: every probe carries an explicit timeout; a probe that ends in
\* a connection failure or a timeout gives NetBox and Syslog the status
\* "Failed"; ServiceNow and Zendesk get "Failed" for a timeout that is not a
\* connection failure, and "Passed" for a connection failure, a connect
\* timeout included.
C20_ProbesTimedFailuresClassified ==
  health.called =>
    \A i \in 1..Len(health.probes) :
      LET probe == health.probes[i] IN
        /\ HasExplicitTimeout(probe)
        /\ ConnectionFailedOrTimedOut(probe.outcome) =>
             ComponentStatus(probe.component) =
               IF probe.component \in AssumePassedOffline
                    /\ probe.outcome.ConnectionError
                 THEN "Passed" ELSE "Failed"

\* C20 witness: a report made with a real token in which the NetBox probe
\* timed out reading, the Syslog probe timed out connecting, the ServiceNow
\* probe timed out connecting and the Zendesk probe was refused
C20_Witness ==
  /\ health.called
  /\ Len(health.probes) = 4
  /\ health.probes[1].component = "NetBox" /\ health.probes[1].outcome = ReadTimeout
  /\ health.probes[2].component = "Syslog" /\ health.probes[2].outcome = ConnectTimeout
  /\ health.probes[3].component = "ServiceNow"
  /\ health.probes[3].outcome = ConnectTimeout
  /\ health.probes[4].component = "Zendesk"
  /\ health.probes[4].outcome = ConnectionRefused
  /\ ComponentStatus("NetBox") = "Failed"
  /\ ComponentStatus("Syslog") = "Failed"
  /\ ComponentStatus("ServiceNow") = "Passed"
  /\ ComponentStatus("Zendesk") = "Passed"

----------------------------------------------------------------------------
(* C21: standard output of a server script *)

\* C21: from its start to its exit a server script writes only protocol
\* messages to standard output, never diagnostic or banner text; for
\* mcp_server.py and for mcp_test_server.py.
C21_StdoutOnlyProtocol ==
  stdio.entry \in EntryPoints =>
    \A i \in 1..Len(stdio.stdout) : stdio.stdout[i].kind = "protocol"

\* The same for mcp_server.py alone, whose diagnostics all go through the
\* logger
C21_HoldsForMcpServer ==
  stdio.entry = "mcp_server.py" =>
    \A i \in 1..Len(stdio.stdout) : stdio.stdout[i].kind = "protocol"

\* mcp_server.py has logged its banner and served a call
C21_McpServerServed ==
  /\ stdio.entry = "mcp_server.py"
  /\ Len(stdio.log) >= 9
  /\ Len(stdio.stdout) >= 1

----------------------------------------------------------------------------
(* C22: ranges of the telemetry counters *)

TelemetryReturned == IsCall("get_port_telemetry") /\ last.agent = "return"

\* C22: every result of get_port_telemetry has rx_bytes and tx_bytes in
\* [10000, 10000000], rx_errors and tx_errors in [0, 10] and utilization in
\* [0.20, 0.95], bounds included, after the rounding to two decimals
\* (utilization is held in hundredths).
C22_TelemetryInRange ==
  TelemetryReturned =>
    /\ last.result["rx_bytes"].v \in 10000..10000000
    /\ last.result["tx_bytes"].v \in 10000..10000000
    /\ last.result["rx_errors"].v \in 0..10
    /\ last.result["tx_errors"].v \in 0..10
    /\ last.result["utilization"].v \in 20..95

\* C22 witness: a result at the upper ends: 10000000 bytes received, 10
\* receive errors and utilization 0.95
C22_Witness ==
  /\ TelemetryReturned
  /\ last.result["rx_bytes"].v = 10000000
  /\ last.result["rx_errors"].v = 10
  /\ last.result["utilization"].v = 95

----------------------------------------------------------------------------
(* C23: the topology and its statistics *)

\* get_network_topology returned the topology (not the payload of its
\* except clause)
TopologyReturned ==
  /\ IsCall("get_network_topology")
  /\ last.agent = "return"
  /\ "error" \notin DOMAIN last.result

\* C23: every call of get_network_topology that returns a topology returns
\* the same fixed graph of 5 devices and 4 links, with statistics derived
\* from it: total_devices is the number of devices, total_links the number
\* of links, sonic_devices counts the devices of type SONiC,
\* sonic_devices + non_sonic_devices = total_devices, and active_links is
\* the number of links with status "up", at most total_links.
C23_FixedTopologyWithCounts ==
  TopologyReturned =>
    LET devs == last.result["devices"].v
        lnks == last.result["links"].v
        st == last.result["statistics"].v
    IN  /\ devs = devices
        /\ lnks = links
        /\ Len(devs) = 5
        /\ Len(lnks) = 4
        /\ st["total_devices"].v = Len(devs)
        /\ st["total_links"].v = Len(lnks)
        /\ st["sonic_devices"].v =
             Cardinality({i \in 1..Len(devs) : devs[i].type = "SONiC"})
        /\ st["sonic_devices"].v + st["non_sonic_devices"].v = st["total_devices"].v
        /\ st["active_links"].v =
             Cardinality({i \in 1..Len(lnks) : lnks[i].status = "up"})
        /\ st["active_links"].v <= st["total_links"].v

\* C23 witness: a returned topology with 3 SONiC devices, 2 others and 4
\* active links
C23_Witness ==
  /\ TopologyReturned
  /\ last.outcome = "return"
  /\ last.result["statistics"].v["sonic_devices"].v = 3
  /\ last.result["statistics"].v["non_sonic_devices"].v = 2
  /\ last.result["statistics"].v["active_links"].v = 4

----------------------------------------------------------------------------
(* C24: request ids of a client session *)

IsRequest(msg) == msg.method \in {"initialize", "tools/call"}

\* C24: within one session of the test client every tools/call request
\* carries an id that no earlier request of the session used.
C24_FreshRequestIds ==
  \A i, j \in 1..Len(client.sent) :
    (i < j /\ IsRequest(client.sent[i]) /\ client.sent[j].method = "tools/call") =>
      client.sent[i].id # client.sent[j].id

\* The only id used twice is that of Test 8, used again by Test 9
C24_OnlyTest8IdReused ==
  \A i, j \in 1..Len(client.sent) :
    (i < j /\ IsRequest(client.sent[i]) /\ client.sent[j].method = "tools/call"
       /\ client.sent[i].id = client.sent[j].id) =>
      /\ client.script = "client_test.py"
      /\ client.sent[i].name = "get_device_and_interface_report"
      /\ client.sent[j].name = "validate_system_health"
      /\ j = i + 1

\* client_test.py reached its end and ten distinct ids were used for its
\* ten calls
C24_AllCallsFresh ==
  /\ client.script = "client_test.py"
  /\ client.pc = "exited"
  /\ client.request_id = 12
  /\ Len(client.sent) = 12

----------------------------------------------------------------------------
(* C25: tool calls and the state later calls read *)

----------------------------------------------------------------------------
(* C26: the score and the error counts *)

\* Two predictions served one after the other by the same process, the
\* second with the same utilization and error counts at least as high
ErrorsRaised ==
  /\ HasScore(predLog)
  /\ HasScore(predLog')
  /\ predLog'.run = predLog.run
  /\ ClampUtilization(predLog'.args[3]) = ClampUtilization(predLog.args[3])
  /\ Abs(predLog'.args[1]) >= Abs(predLog.args[1])
  /\ Abs(predLog'.args[2]) >= Abs(predLog.args[2])

\* C26: for fixed utilization, raising rx_errors or tx_errors never
\* increases the health_score that predict_link_health returns.
C26_MonotoneInErrors ==
  [][ErrorsRaised =>
        predLog'.result["health_score"].v <= predLog.result["health_score"].v]_vars

\* The same on the unrounded score of the model
C26_MonotoneUnrounded ==
  [][ErrorsRaised => predLog'.score <= predLog.score]_vars

----------------------------------------------------------------------------
(* C27: the report of validate_system_health *)

ReportTotal(key) == health.report["Total"][key].v

\* C27: every report of validate_system_health has exactly the five
\* components and Total; every component status is Passed, Failed or
\* Not Run; the counts of Total add up to 5; FlowAnalytics is always
\* Not Run and no other component is, so NotRun = 1 and Passed <= 4.
C27_ReportShape ==
  health.called =>
    /\ DOMAIN health.report =
         {"NetBox", "Syslog", "ServiceNow", "Zendesk", "FlowAnalytics", "Total"}
    /\ \A c \in {"NetBox", "Syslog", "ServiceNow", "Zendesk", "FlowAnalytics"} :
         /\ ComponentStatus(c) \in {"Passed", "Failed", "Not Run"}
         /\ ComponentStatus(c) = "Not Run" <=> c = "FlowAnalytics"
    /\ DOMAIN health.report["Total"] = {"Passed", "Failed", "NotRun"}
    /\ ReportTotal("Passed") + ReportTotal("Failed") + ReportTotal("NotRun") = 5
    /\ ReportTotal("Passed") =
         Cardinality({c \in {"NetBox", "Syslog", "ServiceNow", "Zendesk"} :
                        ComponentStatus(c) = "Passed"})
    /\ ReportTotal("NotRun") = 1
    /\ ReportTotal("Passed") <= 4

\* C27 witness: a report with four components passed and FlowAnalytics not
\* run
C27_Witness ==
  /\ health.called
  /\ ReportTotal("Passed") = 4
  /\ ReportTotal("Failed") = 0
  /\ ReportTotal("NotRun") = 1
  /\ ComponentStatus("FlowAnalytics") = "Not Run"

\* C27 witness for the other end: every probing component failed
C27_WitnessAllFailed ==
  /\ health.called
  /\ ReportTotal("Passed") = 0
  /\ ReportTotal("Failed") = 4

----------------------------------------------------------------------------
(* C28: the handshake of the client scripts *)

HasResult(v) == v.t = "obj" /\ "result" \in DOMAIN v.v

\* The initialize response was read and was missing or carried no result
InitFailed ==
  /\ client.pc = "exited"
  /\ Len(client.sent) = 1
  /\ ~HasResult(client.data)

\* First half of C28: a client writes notifications/initialized and
\* tools/call only after the initialize request, and only after it has read
\* an initialize response that contains `result`; a script that left after
\* the initialize response has written nothing else.
C28_NothingBeforeInitResult ==
  /\ Len(client.sent) >= 1 => client.sent[1].method = "initialize"
  /\ client.pc \in {"initialize", "read_init"} => Len(client.sent) <= 1
  /\ client.pc = "notify" => (Len(client.sent) = 1 /\ HasResult(client.data))
  /\ Len(client.sent) >= 2 => client.sent[2].method = "notifications/initialized"
  /\ \A i \in 3..Len(client.sent) : client.sent[i].method = "tools/call"
  /\ InitFailed => Len(client.sent) = 1

\* C28: a client never writes notifications/initialized or a tools/call
\* before it has read an initialize response that contains `result`, and if
\* the initialize response is missing or carries no result it exits with
\* status 1 without sending any further message.
C28_HandshakeOrExit1 ==
  /\ C28_NothingBeforeInitResult
  /\ InitFailed => client.status = 1

\* The exit status is 1 for client_test.py and plot_chart.py
C28_HoldsForOtherScripts ==
  (InitFailed /\ client.script # "test_inventory_devices.py") => client.status = 1

\* A script left with status 1 after an initialize response without result
C28_ExitedWithStatus1 ==
  /\ InitFailed
  /\ client.script = "test_inventory_devices.py"
  /\ client.status = 1

----------------------------------------------------------------------------
(* C29: references inside the topology *)

DeviceIds(devs) == {devs[i].id : i \in 1..Len(devs)}

\* The interface names of the device with this id
PortsOf(devs, id) ==
  {devs[i].interfaces[k].name :
     i \in {n \in 1..Len(devs) : devs[n].id = id},
     k \in 1..2}

\* The (device, port) pairs the links end in, as a sequence: source ends
\* first, then target ends
Endpoints(lnks) ==
  [n \in 1..(2 * Len(lnks)) |->
     IF n <= Len(lnks)
       THEN <<lnks[n].source, lnks[n].source_port>>
       ELSE <<lnks[n - Len(lnks)].target, lnks[n - Len(lnks)].target_port>>]

\* C29: in the topology of build_multi_vendor_topology device ids are
\* unique, every link joins two different listed devices, each port named
\* by a link is an interface of its device, and no (device, port) pair is
\* the end of more than one link.
C29_TopologyConsistent ==
  TopologyReturned =>
    LET devs == last.result["devices"].v
        lnks == last.result["links"].v
        ends == Endpoints(lnks)
    IN  /\ \A i, j \in 1..Len(devs) : devs[i].id = devs[j].id => i = j
        /\ \A i \in 1..Len(lnks) :
             /\ lnks[i].source \in DeviceIds(devs)
             /\ lnks[i].target \in DeviceIds(devs)
             /\ lnks[i].source # lnks[i].target
             /\ lnks[i].source_port \in PortsOf(devs, lnks[i].source)
             /\ lnks[i].target_port \in PortsOf(devs, lnks[i].target)
        /\ \A a, b \in 1..Len(ends) : ends[a] = ends[b] => a = b

\* C29 witness: a returned topology in which sonic-leaf-01 is the source of
\* one link on Ethernet24 and the target of another on Ethernet12
C29_Witness ==
  /\ TopologyReturned
  /\ \E i, j \in 1..Len(last.result["links"].v) :
       LET lnks == last.result["links"].v IN
         /\ lnks[i].source = "sonic-leaf-01" /\ lnks[i].source_port = "Ethernet24"
         /\ lnks[j].target = "sonic-leaf-01" /\ lnks[j].target_port = "Ethernet12"

----------------------------------------------------------------------------
(* C30: the shape of a predict_link_health result *)

InputsEcho(result) ==
  /\ "inputs" \in DOMAIN result
  /\ result["inputs"].t = "obj"
  /\ DOMAIN result["inputs"].v = {"rx_errors", "tx_errors", "utilization"}

\* C30: every result of the predict_link_health tool has a status among
\* healthy, warning and error; status "error", a null health_score and an
\* "error" key come together or not at all; a healthy or warning result
\* has a numeric health_score and the inputs echo.
C30_ResultShape ==
  predLog.called =>
    /\ predLog.outcome = "return"
    /\ {"status", "health_score"} \subseteq DOMAIN predLog.result
    /\ predLog.result["status"].t = "str"
    /\ predLog.result["status"].v \in {"healthy", "warning", "error"}
    /\ (predLog.result["status"].v = "error")
         <=> (predLog.result["health_score"].t = "null")
    /\ (predLog.result["status"].v = "error")
         <=> ("error" \in DOMAIN predLog.result)
    /\ predLog.result["health_score"].t \in {"null", "num"}
    /\ predLog.result["status"].v \in {"healthy", "warning"}
         => (predLog.result["health_score"].t = "num" /\ InputsEcho(predLog.result))

\* C30 witness: a result of the agent's except clause
C30_Witness ==
  /\ predLog.called
  /\ "error" \in DOMAIN predLog.result
  /\ predLog.result["error"].v = "Prediction failed"
  /\ predLog.result["health_score"].t = "null"

\* A result of the wrapper's except clause
C30_WrapperCaught ==
  /\ predLog.called
  /\ "error" \in DOMAIN predLog.result
  /\ predLog.result["error"].v = "Health prediction failed"

\* A healthy and a warning result, each with a score and the inputs echo
C30_Scored ==
  /\ HasScore(predLog)
  /\ predLog.result["status"].v \in {"healthy", "warning"}

====
